---------------------------- MODULE Spec2Model ----------------------------
(***************************************************************************)
(* Model of the MySQL migration-state store (src/mysql/mysql.go).          *)
(*                                                                         *)
(* The state is the content of the three tracking tables of one MySQL      *)
(* database (metaversion, meta, metacheckpoints) plus the outcome of the   *)
(* last Store call.  Every Store method is one action; the method's SQL    *)
(* statements are operators on a database value, with the result MySQL     *)
(* gives for them (error numbers as in the server's messages).             *)
(*                                                                         *)
(* MySQL facts the model rests on:                                         *)
(*  - CREATE TABLE and ALTER TABLE are DDL: the server commits the open     *)
(*    transaction before running them and the statement itself cannot be   *)
(*    rolled back; after that implicit commit the session is back in       *)
(*    autocommit mode, so later DML commits statement by statement.        *)
(*  - the server runs in its default strict SQL mode: MODIFY COLUMN ...    *)
(*    NOT NULL over a NULL value is Error 1138.                            *)
(*  - ADD COLUMN ... TEXT NOT NULL gives existing rows the empty string.   *)
(* The createdat columns are defaulted by the server, never read by the    *)
(* store, and are left out.                                                *)
(***************************************************************************)
EXTENDS Integers, Sequences, FiniteSets, TLC

VARIABLES metaversion, meta, metacheckpoints, ret

vars == <<metaversion, meta, metacheckpoints, ret>>

(***************************************************************************)
(* Bounds and input sets.                                                  *)
(***************************************************************************)
\* longest `migrations` argument given to UpgradeToV1
MaxMigrations == 2
\* largest idx given to InsertMetaCheckpoint
MaxIdx == 0

\* SQL NULL, and the implicit default of a NOT NULL TEXT column
NULL == "<NULL>"
EmptyText == ""

\* File names are sequences of characters.
Filenames == { <<"9", "_", "x">>, <<"1", "0", "_", "y">> }
Checksums == { "m1", "m2" }
\* schemaVersion arguments of CreateMetaVersionIfNotExists
SchemaVersions == { 0, 1, 2 }

\* The callers hash the content they hand over: the (content, checksum) pairs
\* of InsertMigration and UpsertMigration
Hashed == { <<"a", "m1">>, <<"b", "m2">> }

\* The migration files on disk, which the caller hands to UpgradeToV1: one
\* content per file name
OnDisk(filename) ==
    IF filename = <<"9", "_", "x">>
    THEN [filename |-> filename, content |-> "a", checksum |-> "m1"]
    ELSE [filename |-> filename, content |-> "b", checksum |-> "m2"]

Migration == { OnDisk(f) : f \in Filenames }

RECURSIVE SeqsUpTo(_, _)
SeqsUpTo(S, n) ==
    IF n = 0 THEN { <<>> }
    ELSE LET shorter == SeqsUpTo(S, n - 1)
         IN  shorter \cup { Append(s, x) : s \in { t \in shorter : Len(t) = n - 1 }, x \in S }

(***************************************************************************)
(* Errors.  A nil error is ErrNil; server errors carry MySQL's number.     *)
(***************************************************************************)
ErrNil == "nil"
\* the driver's text for it holds "Error 1050:", which the store looks for
ErrTableExists == "Error 1050: Table already exists"
ErrBadField == "Error 1054: Unknown column"
ErrDupFieldName == "Error 1060: Duplicate column name"
ErrDupEntry == "Error 1062: Duplicate entry"
ErrCantDropKey == "Error 1091: Can't DROP; check that column/key exists"
ErrInvalidNull == "Error 1138: Invalid use of NULL value"
ErrNoSuchTable == "Error 1146: Table doesn't exist"
ErrNoRows == "sql: no rows in result set"
\* any other failure of a statement (lost connection, lock timeout, ...)
ErrDriver == "driver: bad connection"

(***************************************************************************)
(* A database value: the three tables.                                     *)
(*   metaversion     rows is the sequence of version values                *)
(*   meta            md5Unique: the unique index `md5` exists;             *)
(*                   content: "none" (no such column), "null" (TEXT),      *)
(*                   "notnull" (TEXT NOT NULL); rows are records           *)
(*                   [filename, md5, content] (content NULL without the    *)
(*                   column)                                               *)
(*   metacheckpoints content: the content column exists; rows are records  *)
(*                   [filename, idx, md5, content]                         *)
(***************************************************************************)
DB(v, m, c) == [metaversion |-> v, meta |-> m, metacheckpoints |-> c]

\* a table that does not exist
NoMetaversion == [exists |-> FALSE, rows |-> <<>>]
NoMeta == [exists |-> FALSE, md5Unique |-> FALSE, content |-> "none", rows |-> {}]
NoMetaCheckpoints == [exists |-> FALSE, content |-> FALSE, rows |-> {}]

Res(db, err) == [db |-> db, err |-> err]

----------------------------------------------------------------------------
(***************************************************************************)
(* The SQL statements of the store, each as MySQL executes it.             *)
(***************************************************************************)

\* CREATE TABLE metaversion (version INTEGER NOT NULL)
SqlCreateMetaversion(db) ==
    IF db.metaversion.exists
    THEN Res(db, ErrTableExists)
    ELSE Res([db EXCEPT !.metaversion = [exists |-> TRUE, rows |-> <<>>]], ErrNil)

\* CREATE TABLE IF NOT EXISTS metaversion (version INTEGER NOT NULL)
SqlCreateMetaversionIfNotExists(db) ==
    IF db.metaversion.exists
    THEN Res(db, ErrNil)
    ELSE Res([db EXCEPT !.metaversion = [exists |-> TRUE, rows |-> <<>>]], ErrNil)

\* SELECT version FROM metaversion, read with Get: the first row or ErrNoRows
SqlSelectVersion(db) ==
    IF ~db.metaversion.exists THEN [err |-> ErrNoSuchTable, version |-> 0]
    ELSE IF db.metaversion.rows = <<>> THEN [err |-> ErrNoRows, version |-> 0]
    ELSE [err |-> ErrNil, version |-> Head(db.metaversion.rows)]

\* INSERT INTO metaversion (version) VALUES (?)
SqlInsertVersion(db, version) ==
    IF ~db.metaversion.exists THEN Res(db, ErrNoSuchTable)
    ELSE Res([db EXCEPT !.metaversion.rows = Append(@, version)], ErrNil)

\* mutant: the DELETE is left out
SqlDeleteVersionNone(db) ==
    IF ~db.metaversion.exists THEN Res(db, ErrNoSuchTable) ELSE Res(db, ErrNil)

\* DELETE FROM metaversion
SqlDeleteVersion(db) ==
    IF ~db.metaversion.exists THEN Res(db, ErrNoSuchTable)
    ELSE Res([db EXCEPT !.metaversion.rows = <<>>], ErrNil)

\* CREATE TABLE IF NOT EXISTS meta (filename UNIQUE NOT NULL, md5 NOT NULL,
\*                                  content TEXT NOT NULL, createdat)
SqlCreateMeta(db) ==
    IF db.meta.exists
    THEN Res(db, ErrNil)
    ELSE Res([db EXCEPT !.meta = [exists |-> TRUE, md5Unique |-> FALSE,
                                  content |-> "notnull", rows |-> {}]], ErrNil)

\* mutant: CREATE OR REPLACE TABLE metacheckpoints
SqlCreateMetaCheckpointsReplace(db) ==
    Res([db EXCEPT !.metacheckpoints = [exists |-> TRUE, content |-> TRUE,
                                        rows |-> {}]], ErrNil)

\* CREATE TABLE IF NOT EXISTS metacheckpoints (filename, idx, md5, content,
\*                                  createdat, PRIMARY KEY (filename, idx))
SqlCreateMetaCheckpoints(db) ==
    IF db.metacheckpoints.exists
    THEN Res(db, ErrNil)
    ELSE Res([db EXCEPT !.metacheckpoints = [exists |-> TRUE, content |-> TRUE,
                                             rows |-> {}]], ErrNil)

\* mutant: filename is not UNIQUE
SqlInsertMetaNoUnique(db, filename, content, checksum) ==
    LET t == db.meta IN
    IF ~t.exists THEN Res(db, ErrNoSuchTable)
    ELSE IF t.content = "none" THEN Res(db, ErrBadField)
    ELSE Res([db EXCEPT !.meta.rows =
                 @ \cup {[filename |-> filename, md5 |-> checksum, content |-> content]}],
             ErrNil)

\* mutant: REPLACE INTO, the new record takes the place of the old one
SqlInsertMetaReplace(db, filename, content, checksum) ==
    LET t == db.meta IN
    IF ~t.exists THEN Res(db, ErrNoSuchTable)
    ELSE IF t.content = "none" THEN Res(db, ErrBadField)
    ELSE Res([db EXCEPT !.meta.rows =
                 { r \in @ : r.filename # filename }
                 \cup {[filename |-> filename, md5 |-> checksum, content |-> content]}],
             ErrNil)

\* INSERT INTO meta (filename, content, md5) VALUES (?, ?, ?)
SqlInsertMeta(db, filename, content, checksum) ==
    LET t == db.meta IN
    IF ~t.exists THEN Res(db, ErrNoSuchTable)
    ELSE IF t.content = "none" THEN Res(db, ErrBadField)
    ELSE IF \E r \in t.rows : r.filename = filename THEN Res(db, ErrDupEntry)
    ELSE IF t.md5Unique /\ \E r \in t.rows : r.md5 = checksum THEN Res(db, ErrDupEntry)
    ELSE Res([db EXCEPT !.meta.rows =
                 @ \cup {[filename |-> filename, md5 |-> checksum, content |-> content]}],
             ErrNil)

\* mutant: INSERT IGNORE, an existing record is kept as it is
SqlUpsertMetaIgnore(db, filename, content, checksum) ==
    LET t == db.meta IN
    IF ~t.exists THEN Res(db, ErrNoSuchTable)
    ELSE IF t.content = "none" THEN Res(db, ErrBadField)
    ELSE IF \E r \in t.rows : r.filename = filename THEN Res(db, ErrNil)
    ELSE Res([db EXCEPT !.meta.rows =
                 @ \cup {[filename |-> filename, md5 |-> checksum, content |-> content]}],
             ErrNil)

\* INSERT INTO meta (filename, content, md5) VALUES (?, ?, ?)
\* ON DUPLICATE KEY UPDATE md5=?, content=?
SqlUpsertMeta(db, filename, content, checksum) ==
    LET t == db.meta
        hit == { r \in t.rows : r.filename = filename
                                \/ (t.md5Unique /\ r.md5 = checksum) }
    IN
    IF ~t.exists THEN Res(db, ErrNoSuchTable)
    ELSE IF t.content = "none" THEN Res(db, ErrBadField)
    ELSE IF hit = {}
    THEN Res([db EXCEPT !.meta.rows =
                 @ \cup {[filename |-> filename, md5 |-> checksum, content |-> content]}],
             ErrNil)
    ELSE LET old == IF \E r \in hit : r.filename = filename
                    THEN CHOOSE r \in hit : r.filename = filename
                    ELSE CHOOSE r \in hit : TRUE
             new == [old EXCEPT !.md5 = checksum, !.content = content]
         IN  IF t.md5Unique /\ \E r \in t.rows \ {old} : r.md5 = checksum
             THEN Res(db, ErrDupEntry)
             ELSE Res([db EXCEPT !.meta.rows = (@ \ {old}) \cup {new}], ErrNil)

\* mutant: PRIMARY KEY (idx)
SqlInsertCheckpointKeyIdx(db, filename, content, checksum, idx) ==
    LET t == db.metacheckpoints IN
    IF ~t.exists THEN Res(db, ErrNoSuchTable)
    ELSE IF ~t.content THEN Res(db, ErrBadField)
    ELSE IF \E r \in t.rows : r.idx = idx
    THEN Res(db, ErrDupEntry)
    ELSE Res([db EXCEPT !.metacheckpoints.rows =
                 @ \cup {[filename |-> filename, idx |-> idx, md5 |-> checksum,
                          content |-> content]}],
             ErrNil)

\* mutant: REPLACE INTO metacheckpoints
SqlInsertCheckpointReplace(db, filename, content, checksum, idx) ==
    LET t == db.metacheckpoints IN
    IF ~t.exists THEN Res(db, ErrNoSuchTable)
    ELSE IF ~t.content THEN Res(db, ErrBadField)
    ELSE Res([db EXCEPT !.metacheckpoints.rows =
                 { r \in @ : ~(r.filename = filename /\ r.idx = idx) }
                 \cup {[filename |-> filename, idx |-> idx, md5 |-> checksum,
                        content |-> content]}],
             IF \E r \in t.rows : r.filename = filename /\ r.idx = idx
             THEN ErrDupEntry ELSE ErrNil)

\* INSERT INTO metacheckpoints (filename, content, idx, md5) VALUES (?, ?, ?, ?)
SqlInsertCheckpoint(db, filename, content, checksum, idx) ==
    LET t == db.metacheckpoints IN
    IF ~t.exists THEN Res(db, ErrNoSuchTable)
    ELSE IF ~t.content THEN Res(db, ErrBadField)
    ELSE IF \E r \in t.rows : r.filename = filename /\ r.idx = idx
    THEN Res(db, ErrDupEntry)
    ELSE Res([db EXCEPT !.metacheckpoints.rows =
                 @ \cup {[filename |-> filename, idx |-> idx, md5 |-> checksum,
                          content |-> content]}],
             ErrNil)

\* mutant: DELETE FROM metacheckpoints WHERE filename = (one of the files)
SqlDeleteCheckpointsOneFile(db) ==
    IF ~db.metacheckpoints.exists THEN Res(db, ErrNoSuchTable)
    ELSE Res([db EXCEPT !.metacheckpoints.rows =
                 { r \in @ : r.filename # (CHOOSE f \in Filenames : TRUE) }], ErrNil)

\* mutant: DELETE FROM metacheckpoints WHERE idx = 0
SqlDeleteCheckpointsHead(db) ==
    IF ~db.metacheckpoints.exists THEN Res(db, ErrNoSuchTable)
    ELSE Res([db EXCEPT !.metacheckpoints.rows = { r \in @ : r.idx # 0 }], ErrNil)

\* DELETE FROM metacheckpoints
SqlDeleteCheckpoints(db) ==
    IF ~db.metacheckpoints.exists THEN Res(db, ErrNoSuchTable)
    ELSE Res([db EXCEPT !.metacheckpoints.rows = {}], ErrNil)

\* ALTER TABLE meta DROP INDEX md5
SqlDropIndexMd5(db) ==
    IF ~db.meta.exists THEN Res(db, ErrNoSuchTable)
    ELSE IF ~db.meta.md5Unique THEN Res(db, ErrCantDropKey)
    ELSE Res([db EXCEPT !.meta.md5Unique = FALSE], ErrNil)

\* ALTER TABLE meta ADD COLUMN content TEXT
SqlAddContentColumn(db) ==
    IF ~db.meta.exists THEN Res(db, ErrNoSuchTable)
    ELSE IF db.meta.content # "none" THEN Res(db, ErrDupFieldName)
    ELSE Res([db EXCEPT !.meta.content = "null",
                        !.meta.rows = { [r EXCEPT !.content = NULL] : r \in @ }],
             ErrNil)

\* UPDATE meta SET content=? WHERE filename=?
SqlUpdateContent(db, content, filename) ==
    IF ~db.meta.exists THEN Res(db, ErrNoSuchTable)
    ELSE IF db.meta.content = "none" THEN Res(db, ErrBadField)
    ELSE Res([db EXCEPT !.meta.rows =
                 { IF r.filename = filename THEN [r EXCEPT !.content = content] ELSE r
                   : r \in @ }],
             ErrNil)

\* mutant: without strict SQL mode NULL becomes the empty string
SqlModifyContentNotNullLax(db) ==
    IF ~db.meta.exists THEN Res(db, ErrNoSuchTable)
    ELSE IF db.meta.content = "none" THEN Res(db, ErrBadField)
    ELSE Res([db EXCEPT !.meta.content = "notnull",
                        !.meta.rows = { IF r.content = NULL
                                        THEN [r EXCEPT !.content = EmptyText] ELSE r
                                        : r \in @ }],
             ErrNil)

\* ALTER TABLE meta MODIFY COLUMN content TEXT NOT NULL
SqlModifyContentNotNull(db) ==
    IF ~db.meta.exists THEN Res(db, ErrNoSuchTable)
    ELSE IF db.meta.content = "none" THEN Res(db, ErrBadField)
    ELSE IF \E r \in db.meta.rows : r.content = NULL THEN Res(db, ErrInvalidNull)
    ELSE Res([db EXCEPT !.meta.content = "notnull"], ErrNil)

\* ALTER TABLE metacheckpoints ADD COLUMN content TEXT NOT NULL
SqlAddCheckpointContentColumn(db) ==
    IF ~db.metacheckpoints.exists THEN Res(db, ErrNoSuchTable)
    ELSE IF db.metacheckpoints.content THEN Res(db, ErrDupFieldName)
    ELSE Res([db EXCEPT !.metacheckpoints.content = TRUE,
                        !.metacheckpoints.rows =
                            { [r EXCEPT !.content = EmptyText] : r \in @ }],
             ErrNil)

\* the md5 of the rows, ORDER BY idx (rows of one file differ in idx)
RECURSIVE OrderedByIdx(_)
OrderedByIdx(rows) ==
    IF rows = {} THEN <<>>
    ELSE LET first == CHOOSE r \in rows : \A q \in rows : r.idx <= q.idx
         IN  <<first.md5>> \o OrderedByIdx(rows \ {first})

\* mutant: SELECT md5 FROM metacheckpoints ORDER BY idx, filename
SqlSelectCheckpointsAll(db, filename) ==
    LET t == db.metacheckpoints
        Of(f) == OrderedByIdx({ r \in t.rows : r.filename = f })
        Others(f) == IF Filenames = {f} THEN <<>>
                     ELSE Of(CHOOSE g \in Filenames : g # f)
    IN
    IF ~t.exists THEN [err |-> ErrNoSuchTable, checkpoints |-> <<>>]
    ELSE [err |-> ErrNil, checkpoints |-> Of(filename) \o Others(filename)]

\* SELECT md5 FROM metacheckpoints WHERE filename=? ORDER BY idx
SqlSelectCheckpoints(db, filename) ==
    LET t == db.metacheckpoints IN
    IF ~t.exists THEN [err |-> ErrNoSuchTable, checkpoints |-> <<>>]
    ELSE [err |-> ErrNil,
          checkpoints |-> OrderedByIdx({ r \in t.rows : r.filename = filename })]

(***************************************************************************)
(* ORDER BY filename * 1: MySQL turns the string into a number by reading  *)
(* its leading digits (0 when there are none).  The file names of the      *)
(* model hold no sign, blank, "." or exponent, which MySQL would read too. *)
(***************************************************************************)
DigitChars == <<"0", "1", "2", "3", "4", "5", "6", "7", "8", "9">>

IsDigit(c) == \E d \in 1 .. 10 : DigitChars[d] = c

DigitValue(c) == (CHOOSE d \in 1 .. 10 : DigitChars[d] = c) - 1

RECURSIVE DigitsFrom(_, _, _)
DigitsFrom(filename, k, acc) ==
    IF k > Len(filename) \/ ~IsDigit(filename[k]) THEN acc
    ELSE DigitsFrom(filename, k + 1, acc * 10 + DigitValue(filename[k]))

\* filename * 1
TimesOne(filename) == DigitsFrom(filename, 1, 0)

\* mutant: ORDER BY filename, the order of the character codes
RECURSIVE OrderedByCode(_)
OrderedByCode(rows) ==
    IF rows = {} THEN { <<>> }
    ELSE LET Code(c) == CHOOSE n \in 1 .. 15 :
                 <<"0", "1", "2", "3", "4", "5", "6", "7", "8", "9",
                   "_", "a", "b", "x", "y">>[n] = c
             After(f, g) ==
                 \E k \in 1 .. Len(f) :
                     /\ \A j \in 1 .. (k - 1) : j <= Len(g) /\ f[j] = g[j]
                     /\ k > Len(g) \/ Code(f[k]) > Code(g[k])
             first == CHOOSE r \in rows :
                          \A q \in rows \ {r} : After(q.filename, r.filename)
         IN  { <<first>> \o t : t \in OrderedByCode(rows \ {first}) }

\* mutant: ORDER BY filename * 1 DESC
RECURSIVE OrderedByTimesOneDesc(_)
OrderedByTimesOneDesc(rows) ==
    IF rows = {} THEN { <<>> }
    ELSE UNION { { <<r>> \o t : t \in OrderedByTimesOneDesc(rows \ {r}) } :
                 r \in { m \in rows : \A q \in rows :
                                         TimesOne(m.filename) >= TimesOne(q.filename) } }

\* The orders in which a sort by filename * 1 may give the rows: ascending,
\* rows with the same number in any order (the server is free there).
RECURSIVE OrderedByTimesOne(_)
OrderedByTimesOne(rows) ==
    IF rows = {} THEN { <<>> }
    ELSE UNION { { <<r>> \o t : t \in OrderedByTimesOne(rows \ {r}) } :
                 r \in { m \in rows : \A q \in rows :
                                         TimesOne(m.filename) <= TimesOne(q.filename) } }

ErrScanNull == "sql: Scan error: converting NULL to string is unsupported"

\* SELECT filename, content, md5 AS checksum FROM meta ORDER BY filename * 1,
\* read with Select into []migrate.Migration: the results it may give
SqlSelectMigrations(db) ==
    LET t == db.meta IN
    IF ~t.exists THEN [err |-> ErrNoSuchTable, results |-> { <<>> }]
    ELSE IF t.content = "none" THEN [err |-> ErrBadField, results |-> { <<>> }]
    ELSE IF \E r \in t.rows : r.content = NULL
    THEN [err |-> ErrScanNull, results |-> { <<>> }]
    ELSE [err |-> ErrNil,
          results |-> OrderedByTimesOne(
              { [filename |-> r.filename, content |-> r.content, checksum |-> r.md5]
                : r \in t.rows })]

----------------------------------------------------------------------------
(***************************************************************************)
(* Transactions (sqlx Beginx / tx.Exec / tx.Rollback / tx.Commit).         *)
(* A transaction value holds the session's view `db`, the last committed   *)
(* database `saved`, and whether a transaction is still open.              *)
(***************************************************************************)
Beginx(db) == [db |-> db, saved |-> db, active |-> TRUE]

IsDDL(q) == q \in { "ALTER TABLE meta DROP INDEX md5",
                    "ALTER TABLE meta ADD COLUMN content TEXT",
                    "ALTER TABLE meta MODIFY COLUMN content TEXT NOT NULL",
                    "ALTER TABLE metacheckpoints ADD COLUMN content TEXT NOT NULL",
                    "CREATE TABLE IF NOT EXISTS metaversion (version INTEGER NOT NULL)" }

\* one statement of UpgradeToV1 on a database value
SqlExec(db, stmt) ==
    IF stmt.q = "ALTER TABLE meta DROP INDEX md5" THEN SqlDropIndexMd5(db)
    ELSE IF stmt.q = "ALTER TABLE meta ADD COLUMN content TEXT" THEN SqlAddContentColumn(db)
    ELSE IF stmt.q = "UPDATE meta SET content=? WHERE filename=?"
         THEN SqlUpdateContent(db, stmt.args[1], stmt.args[2])
    ELSE IF stmt.q = "ALTER TABLE meta MODIFY COLUMN content TEXT NOT NULL"
         THEN SqlModifyContentNotNull(db)
    ELSE IF stmt.q = "ALTER TABLE metacheckpoints ADD COLUMN content TEXT NOT NULL"
         THEN SqlAddCheckpointContentColumn(db)
    ELSE IF stmt.q = "CREATE TABLE IF NOT EXISTS metaversion (version INTEGER NOT NULL)"
         THEN SqlCreateMetaversionIfNotExists(db)
    ELSE IF stmt.q = "DELETE FROM metaversion" THEN SqlDeleteVersion(db)
    ELSE SqlInsertVersion(db, 1)

\* tx.Exec: a DDL statement first commits what the transaction did and ends
\* it, and is itself committed; DML is committed at once when no transaction
\* is open any more (autocommit), else it waits for Commit or Rollback.
TxExec(tx, stmt) ==
    LET r == SqlExec(tx.db, stmt) IN
    IF IsDDL(stmt.q)
    THEN [db |-> r.db, saved |-> r.db, active |-> FALSE, err |-> r.err]
    ELSE [db |-> r.db, saved |-> IF tx.active THEN tx.saved ELSE r.db,
          active |-> tx.active, err |-> r.err]

\* tx.Rollback / a failed tx.Commit: what an open transaction did is undone
Rollback(tx) == IF tx.active THEN tx.saved ELSE tx.db

\* tx.Commit
Commit(tx) == tx.db

----------------------------------------------------------------------------
(***************************************************************************)
(* The Store methods as functions of the database.  `fault` numbers the    *)
(* database call of the method that fails with ErrDriver without having    *)
(* run (0: none does).                                                     *)
(***************************************************************************)

\* db.Exec / db.Get outside a transaction, with the injected failure
Exec(db, failed, r) == IF failed THEN Res(db, ErrDriver) ELSE r

\* mutant: the version asked for is reported, not the stored one
CreateMetaVersionIfNotExistsCallEcho(db, schemaVersion, fault) ==
    LET c == Exec(db, fault = 1, SqlCreateMetaversion(db))
        created == c.err = ErrNil
        g == IF fault = 2 THEN [err |-> ErrDriver, version |-> 0]
             ELSE SqlSelectVersion(c.db)
        seed == IF created THEN schemaVersion ELSE 0
        i == Exec(c.db, fault = 3, SqlInsertVersion(c.db, seed))
    IN
    IF c.err # ErrNil /\ c.err # ErrTableExists
    THEN [db |-> c.db, err |-> c.err, version |-> 0]
    ELSE IF g.err = ErrNoRows
    THEN IF i.err # ErrNil
         THEN [db |-> i.db, err |-> i.err, version |-> 0]
         ELSE [db |-> i.db, err |-> ErrNil, version |-> seed]
    ELSE IF g.err # ErrNil
    THEN [db |-> c.db, err |-> g.err, version |-> 0]
    ELSE [db |-> c.db, err |-> ErrNil, version |-> schemaVersion]

\* mutant: an empty table that existed is seeded with schemaVersion too
CreateMetaVersionIfNotExistsCallNoReset(db, schemaVersion, fault) ==
    LET c == Exec(db, fault = 1, SqlCreateMetaversion(db))
        created == c.err = ErrNil
        g == IF fault = 2 THEN [err |-> ErrDriver, version |-> 0]
             ELSE SqlSelectVersion(c.db)
        seed == schemaVersion
        i == Exec(c.db, fault = 3, SqlInsertVersion(c.db, seed))
    IN
    IF c.err # ErrNil /\ c.err # ErrTableExists
    THEN [db |-> c.db, err |-> c.err, version |-> 0]
    ELSE IF g.err = ErrNoRows
    THEN IF i.err # ErrNil
         THEN [db |-> i.db, err |-> i.err, version |-> 0]
         ELSE [db |-> i.db, err |-> ErrNil, version |-> seed]
    ELSE IF g.err # ErrNil
    THEN [db |-> c.db, err |-> g.err, version |-> 0]
    ELSE [db |-> c.db, err |-> ErrNil, version |-> g.version]

CreateMetaVersionIfNotExistsCall(db, schemaVersion, fault) ==
    LET c == Exec(db, fault = 1, SqlCreateMetaversion(db))
        created == c.err = ErrNil
        g == IF fault = 2 THEN [err |-> ErrDriver, version |-> 0]
             ELSE SqlSelectVersion(c.db)
        seed == IF created THEN schemaVersion ELSE 0
        i == Exec(c.db, fault = 3, SqlInsertVersion(c.db, seed))
    IN
    IF c.err # ErrNil /\ c.err # ErrTableExists
    THEN [db |-> c.db, err |-> c.err, version |-> 0]
    ELSE IF g.err = ErrNoRows
    THEN IF i.err # ErrNil
         THEN [db |-> i.db, err |-> i.err, version |-> 0]
         ELSE [db |-> i.db, err |-> ErrNil, version |-> seed]
    ELSE IF g.err # ErrNil
    THEN [db |-> c.db, err |-> g.err, version |-> 0]
    ELSE [db |-> c.db, err |-> ErrNil, version |-> g.version]

\* the statements UpgradeToV1 sends, in order
UpgradeStatements(migrations) ==
    << [q |-> "ALTER TABLE meta DROP INDEX md5", args |-> <<>>],
       [q |-> "ALTER TABLE meta ADD COLUMN content TEXT", args |-> <<>>] >>
    \o [ k \in 1 .. Len(migrations) |->
           [q |-> "UPDATE meta SET content=? WHERE filename=?",
            args |-> <<migrations[k].content, migrations[k].filename>>] ]
    \o << [q |-> "ALTER TABLE meta MODIFY COLUMN content TEXT NOT NULL", args |-> <<>>],
          [q |-> "ALTER TABLE metacheckpoints ADD COLUMN content TEXT NOT NULL",
           args |-> <<>>],
          [q |-> "CREATE TABLE IF NOT EXISTS metaversion (version INTEGER NOT NULL)",
           args |-> <<>>],
          [q |-> "DELETE FROM metaversion", args |-> <<>>],
          [q |-> "INSERT INTO metaversion (version) VALUES (1)", args |-> <<>>] >>

\* mutant: "already done" errors are ignored on every statement
IgnoredEverywhere(stmt, err) == err \in {ErrDupFieldName, ErrCantDropKey}

\* the one error UpgradeToV1 ignores: a duplicate column on metacheckpoints
Ignored(stmt, err) ==
    /\ stmt.q = "ALTER TABLE metacheckpoints ADD COLUMN content TEXT NOT NULL"
    /\ err = ErrDupFieldName

\* statements k .. of `stmts` in the transaction, up to the first error that
\* is not ignored; statement number `failAt` fails without having run
RECURSIVE RunStatements(_, _, _, _)
RunStatements(tx, stmts, k, failAt) ==
    IF k > Len(stmts) THEN [tx |-> tx, err |-> ErrNil]
    ELSE IF k = failAt THEN [tx |-> tx, err |-> ErrDriver]
    ELSE LET t == TxExec(tx, stmts[k])
             next == [db |-> t.db, saved |-> t.saved, active |-> t.active]
         IN  IF t.err # ErrNil /\ ~Ignored(stmts[k], t.err)
             THEN [tx |-> next, err |-> t.err]
             ELSE RunStatements(next, stmts, k + 1, failAt)

\* the number of database calls of UpgradeToV1: Beginx, the statements, Commit
UpgradeCalls(migrations) == Len(UpgradeStatements(migrations)) + 2

UpgradeToV1Call(db, migrations, fault) ==
    LET stmts == UpgradeStatements(migrations)
        run == RunStatements(Beginx(db), stmts, 1, fault - 1)
    IN
    IF fault = 1 THEN Res(db, ErrDriver)
    ELSE IF run.err # ErrNil THEN Res(Rollback(run.tx), run.err)
    ELSE IF fault = Len(stmts) + 2 THEN Res(Rollback(run.tx), ErrDriver)
    ELSE Res(Commit(run.tx), ErrNil)

----------------------------------------------------------------------------
(***************************************************************************)
(* The state machine.  ret is the last call: its method, its arguments     *)
(* (of UpgradeToV1's list, the set of its entries), the error it returned  *)
(* and (CreateMetaVersionIfNotExists) the version.                         *)
(***************************************************************************)
Cur == DB(metaversion, meta, metacheckpoints)

Install(db) ==
    /\ metaversion' = db.metaversion
    /\ meta' = db.meta
    /\ metacheckpoints' = db.metacheckpoints

Returned(op, arg, err, val) == [op |-> op, arg |-> arg, err |-> err, val |-> val]

\* The database the store is opened on: an empty one, or a legacy (v0) one
\* whose meta table has a unique md5 and no content, with or without an
\* empty checkpoints table that lacks the content column, and with or
\* without a version table (empty or holding 0).
LegacyMetaRows ==
    { rows \in SUBSET [filename : Filenames, md5 : Checksums, content : {NULL}] :
        \A r1, r2 \in rows :
            (r1.filename = r2.filename \/ r1.md5 = r2.md5) => r1 = r2 }

LegacyCheckpoints ==
    { NoMetaCheckpoints, [exists |-> TRUE, content |-> FALSE, rows |-> {}] }

LegacyVersions ==
    { NoMetaversion, [exists |-> TRUE, rows |-> <<>>], [exists |-> TRUE, rows |-> <<0>>] }

Init ==
    /\ ret = Returned("Open", <<>>, ErrNil, 0)
    /\ \/ /\ metaversion = NoMetaversion
          /\ meta = NoMeta
          /\ metacheckpoints = NoMetaCheckpoints
       \/ /\ metaversion \in LegacyVersions
          /\ \E rows \in LegacyMetaRows :
                meta = [exists |-> TRUE, md5Unique |-> TRUE, content |-> "none",
                        rows |-> rows]
          /\ metacheckpoints \in LegacyCheckpoints

CreateMetaVersionIfNotExists(schemaVersion, fault) ==
    LET r == CreateMetaVersionIfNotExistsCall(Cur, schemaVersion, fault) IN
    /\ Install(r.db)
    /\ ret' = Returned("CreateMetaVersionIfNotExists", <<schemaVersion>>, r.err, r.version)

CreateMetaIfNotExists ==
    LET r == SqlCreateMeta(Cur) IN
    /\ Install(r.db)
    /\ ret' = Returned("CreateMetaIfNotExists", <<>>, r.err, 0)

CreateMetaCheckpointsIfNotExists ==
    LET r == SqlCreateMetaCheckpoints(Cur) IN
    /\ Install(r.db)
    /\ ret' = Returned("CreateMetaCheckpointsIfNotExists", <<>>, r.err, 0)

UpsertMigration(filename, content, checksum) ==
    LET r == SqlUpsertMeta(Cur, filename, content, checksum) IN
    /\ Install(r.db)
    /\ ret' = Returned("UpsertMigration", <<filename, content, checksum>>, r.err, 0)

InsertMetaCheckpoint(filename, content, checksum, idx) ==
    LET r == SqlInsertCheckpoint(Cur, filename, content, checksum, idx) IN
    /\ Install(r.db)
    /\ ret' = Returned("InsertMetaCheckpoint", <<filename, content, checksum, idx>>,
                       r.err, 0)

InsertMigration(filename, content, checksum) ==
    LET r == SqlInsertMeta(Cur, filename, content, checksum) IN
    /\ Install(r.db)
    /\ ret' = Returned("InsertMigration", <<filename, content, checksum>>, r.err, 0)

DeleteMetaCheckpoints ==
    LET r == SqlDeleteCheckpoints(Cur) IN
    /\ Install(r.db)
    /\ ret' = Returned("DeleteMetaCheckpoints", <<>>, r.err, 0)

UpgradeToV1(migrations, fault) ==
    LET r == UpgradeToV1Call(Cur, migrations, fault) IN
    /\ Install(r.db)
    /\ ret' = Returned("UpgradeToV1",
                       << { migrations[k] : k \in 1 .. Len(migrations) } >>, r.err, 0)

GetMigrations ==
    LET r == SqlSelectMigrations(Cur) IN
    /\ UNCHANGED <<metaversion, meta, metacheckpoints>>
    /\ \E migrations \in r.results :
          ret' = Returned("GetMigrations", <<>>, r.err, migrations)

GetMetaCheckpoints(filename) ==
    LET r == SqlSelectCheckpoints(Cur, filename) IN
    /\ UNCHANGED <<metaversion, meta, metacheckpoints>>
    /\ ret' = Returned("GetMetaCheckpoints", <<filename>>, r.err, r.checkpoints)

\* Open as the start of a new process after the last one ended or died: the
\* handle is new, the tables are what the server holds.
Open(failed) ==
    /\ UNCHANGED <<metaversion, meta, metacheckpoints>>
    /\ ret' = Returned("Open", <<>>, IF failed THEN ErrDriver ELSE ErrNil, 0)

\* the checkpoints the main specification appends: one file, one content
CheckpointFilenames == { CHOOSE f \in Filenames : TRUE }
CheckpointContents == { "a" }
CheckpointChecksums == { "m1" }

Next ==
    \/ \E v \in SchemaVersions, fault \in 0 .. 3 : CreateMetaVersionIfNotExists(v, fault)
    \/ CreateMetaIfNotExists
    \/ CreateMetaCheckpointsIfNotExists
    \/ \E f \in Filenames, h \in Hashed : UpsertMigration(f, h[1], h[2])
    \/ \E f \in CheckpointFilenames, c \in CheckpointContents,
          s \in CheckpointChecksums, i \in 0 .. MaxIdx : InsertMetaCheckpoint(f, c, s, i)
    \/ \E f \in Filenames, h \in Hashed : InsertMigration(f, h[1], h[2])
    \/ DeleteMetaCheckpoints
    \/ \E ms \in SeqsUpTo(Migration, MaxMigrations) :
          \E fault \in 0 .. UpgradeCalls(ms) : UpgradeToV1(ms, fault)

Spec == Init /\ [][Next]_vars

(***************************************************************************)
(* The migration records and their listing: file names with one and two    *)
(* leading digits, with the same leading number, and with none.            *)
(***************************************************************************)
ListFilenames == { <<"9", "_", "x">>, <<"1", "0", "_", "y">>, <<"1", "_", "a">>,
                   <<"0", "1", "_", "b">>, <<"x">> }

InitList ==
    /\ ret = Returned("Open", <<>>, ErrNil, 0)
    /\ metaversion = NoMetaversion
    /\ meta = NoMeta
    /\ metacheckpoints = NoMetaCheckpoints

NextList ==
    \/ CreateMetaIfNotExists
    \/ \E f \in ListFilenames, h \in Hashed : InsertMigration(f, h[1], h[2])
    \/ \E f \in ListFilenames : UpsertMigration(f, "b", "m2")
    \/ GetMigrations

SpecList == InitList /\ [][NextList]_vars

(***************************************************************************)
(* New: the TLS material of the connection.  A path or name not given is   *)
(* the empty string; Files is what the file system gives newTLSConfig.     *)
(***************************************************************************)
ErrServerNameRequired == "ssl server name required if ssl key is provided"
ErrCertRequired == "client ssl cert is required if ssl key is provided"
ErrCARequired == "server ca cert is required if ssl key is provided"
ErrReadCA == "new tls config: read sql server cert file"
ErrAppendPem == "new tls config: failed to append to pem"
ErrLoadKeyPair == "new tls config: load x509 key pair"

Files == { "ok", "ca unreadable", "ca not pem", "key pair unreadable" }

\* newTLSConfig: the error, and the server name of the configuration
NewTLSConfig(keyPath, certPath, caPath, serverName, files) ==
    IF files = "ca unreadable" THEN [err |-> ErrReadCA, tls |-> ""]
    ELSE IF files = "ca not pem" THEN [err |-> ErrAppendPem, tls |-> ""]
    ELSE IF files = "key pair unreadable" THEN [err |-> ErrLoadKeyPair, tls |-> ""]
    ELSE [err |-> ErrNil, tls |-> serverName]

\* New: the error, whether a DB is returned, and the tls parameter of its
\* connection URL ("" when the connection is made without TLS)
NewCall(sslKey, sslCert, sslCA, sslServerName, files) ==
    IF sslKey # ""
    THEN IF sslServerName = "" THEN [err |-> ErrServerNameRequired, db |-> FALSE, tls |-> ""]
         ELSE IF sslCert = "" THEN [err |-> ErrCertRequired, db |-> FALSE, tls |-> ""]
         ELSE IF sslCA = "" THEN [err |-> ErrCARequired, db |-> FALSE, tls |-> ""]
         ELSE LET c == NewTLSConfig(sslKey, sslCert, sslCA, sslServerName, files) IN
              IF c.err # ErrNil THEN [err |-> c.err, db |-> FALSE, tls |-> ""]
              ELSE [err |-> ErrNil, db |-> TRUE, tls |-> c.tls]
    ELSE [err |-> ErrNil, db |-> TRUE, tls |-> ""]

New(sslKey, sslCert, sslCA, sslServerName, files) ==
    LET r == NewCall(sslKey, sslCert, sslCA, sslServerName, files) IN
    /\ UNCHANGED <<metaversion, meta, metacheckpoints>>
    /\ ret' = Returned("New", <<sslKey, sslCert, sslCA, sslServerName>>, r.err,
                       [db |-> r.db, tls |-> r.tls])

KeyPaths == { "", "client.key", "other.key" }
CertPaths == { "", "client.pem", "other.pem" }
CAPaths == { "", "ca.pem", "other-ca.pem" }
ServerNames == { "", "db.internal", "db.example" }

NextNew ==
    \E sslKey \in KeyPaths, sslCert \in CertPaths, sslCA \in CAPaths,
       sslServerName \in ServerNames, files \in Files :
        New(sslKey, sslCert, sslCA, sslServerName, files)

SpecNew == InitList /\ [][NextNew]_vars

(***************************************************************************)
(* The checkpoint log: two files, positions 0 .. MaxLogIdx, next to every  *)
(* other operation of the store with one input each.                       *)
(***************************************************************************)
MaxLogIdx == 1

LogFile == CHOOSE f \in Filenames : TRUE

InitLog == Init /\ meta.rows = {}

NextLog ==
    \/ CreateMetaCheckpointsIfNotExists
    \/ \E f \in Filenames, h \in Hashed, idx \in 0 .. MaxLogIdx :
           InsertMetaCheckpoint(f, h[1], h[2], idx)
    \/ DeleteMetaCheckpoints
    \/ \E f \in Filenames : GetMetaCheckpoints(f)
    \/ \E failed \in BOOLEAN : Open(failed)
    \/ CreateMetaVersionIfNotExists(1, 0)
    \/ CreateMetaIfNotExists
    \/ UpsertMigration(LogFile, "a", "m1")
    \/ InsertMigration(LogFile, "a", "m1")
    \/ \E fault \in 0 .. UpgradeCalls(<<>>) : UpgradeToV1(<<>>, fault)

SpecLog == InitLog /\ [][NextLog]_vars

----------------------------------------------------------------------------
(***************************************************************************)
(* Properties.                                                             *)
(***************************************************************************)
Unchanged == /\ metaversion' = metaversion
             /\ meta' = meta
             /\ metacheckpoints' = metacheckpoints

Row(filename, content, checksum) ==
    [filename |-> filename, md5 |-> checksum, content |-> content]

\* C1: a failing UpgradeToV1 leaves the three tables exactly as they were
\* before the call.
C1_FailedUpgradeChangesNothing ==
    [][(ret'.op = "UpgradeToV1" /\ ret'.err # ErrNil) => Unchanged]_vars

\* C2: a successful UpgradeToV1 keeps the rows of meta (filename, md5) and
\* leaves every one with the non-null content of an entry of the list with
\* the same filename; with a row whose filename has no entry the call fails,
\* at the NOT NULL statement unless a database call failed before it.
C2_BackfillFromExisting ==
    [][ret'.op = "UpgradeToV1" =>
         LET existing == ret'.arg[1]
             orphan == \E r \in meta.rows : \A m \in existing : m.filename # r.filename
         IN  /\ ret'.err = ErrNil =>
                  /\ meta.content = "none" /\ meta'.content = "notnull"
                  /\ { <<r.filename, r.md5>> : r \in meta'.rows }
                       = { <<r.filename, r.md5>> : r \in meta.rows }
                  /\ \A r \in meta'.rows :
                        /\ r.content # NULL
                        /\ \E m \in existing :
                              m.filename = r.filename /\ m.content = r.content
             /\ (meta.exists /\ meta.md5Unique /\ meta.content = "none" /\ orphan) =>
                  ret'.err \in {ErrInvalidNull, ErrDriver}
      ]_vars

C2_Witness ==
    /\ ret.op = "UpgradeToV1" /\ ret.err = ErrNil
    /\ Cardinality(meta.rows) = 2
    /\ \A r \in meta.rows : r.content = OnDisk(r.filename).content

C4_SecondUpgradeFailsCleanly ==
    [][(ret'.op = "UpgradeToV1" /\ meta.exists /\ ~meta.md5Unique) =>
         /\ ret'.err \in {ErrCantDropKey, ErrDriver}
         /\ Unchanged
      ]_vars

C4_Witness ==
    /\ ret.op = "UpgradeToV1" /\ ret.err = ErrCantDropKey
    /\ metaversion.rows = <<1>>
    /\ meta.content = "notnull"
    /\ \E r \in meta.rows : r.content = "a" /\ r.md5 = "m2"

\* C5: UpgradeToV1 called while metacheckpoints holds a row returns an error.
C5_NoSuccessWithCheckpoints ==
    [][(ret'.op = "UpgradeToV1" /\ metacheckpoints.rows # {}) => ret'.err # ErrNil]_vars

\* C6: two successful CreateMetaVersionIfNotExists calls in a row report the
\* same version, and after a successful call metaversion holds one row, the
\* version reported.
C6_EnsureVersionTwice ==
    [][(ret'.op = "CreateMetaVersionIfNotExists" /\ ret'.err = ErrNil) =>
         /\ metaversion'.exists /\ metaversion'.rows = <<ret'.val>>
         /\ (ret.op = "CreateMetaVersionIfNotExists" /\ ret.err = ErrNil) =>
                ret'.val = ret.val
      ]_vars

C6_Witness ==
    /\ ret.op = "CreateMetaVersionIfNotExists" /\ ret.err = ErrNil
    /\ ret.arg = <<1>> /\ ret.val = 2
    /\ metaversion.rows = <<2>>

\* C7: a successful CreateMetaVersionIfNotExists(d) seeds and returns d when
\* it created the table, seeds and returns 0 when the table existed empty,
\* and returns the stored version, writing nothing, when a row exists.
C7_SeedRule ==
    [][(ret'.op = "CreateMetaVersionIfNotExists" /\ ret'.err = ErrNil) =>
         LET d == ret'.arg[1] IN
         IF ~metaversion.exists
         THEN ret'.val = d /\ metaversion' = [exists |-> TRUE, rows |-> <<d>>]
         ELSE IF metaversion.rows = <<>>
         THEN ret'.val = 0 /\ metaversion' = [exists |-> TRUE, rows |-> <<0>>]
         ELSE ret'.val = Head(metaversion.rows) /\ metaversion' = metaversion
      ]_vars

C7_Witness ==
    /\ ret.op = "CreateMetaVersionIfNotExists" /\ ret.err = ErrNil
    /\ ret.arg = <<2>> /\ ret.val = 0
    /\ metaversion.rows = <<0>>
    /\ ~meta.exists

C9_UpsertMigration ==
    [][(ret'.op = "UpsertMigration" /\ meta.exists /\ meta.content # "none") =>
         LET f == ret'.arg[1]  c == ret'.arg[2]  s == ret'.arg[3] IN
         /\ ret'.err = ErrNil
         /\ meta' = [meta EXCEPT !.rows =
                        { r \in @ : r.filename # f } \cup {Row(f, c, s)}]
         /\ metaversion' = metaversion /\ metacheckpoints' = metacheckpoints
      ]_vars

C9_Witness ==
    /\ ret.op = "UpsertMigration" /\ ret.err = ErrNil
    /\ Cardinality(meta.rows) = 2
    /\ meta.content = "notnull"
    /\ \E r \in meta.rows : r.filename = ret.arg[1] /\ r.content = "b" /\ r.md5 = "m2"
    /\ \E r \in meta.rows : r.filename # ret.arg[1] /\ r.content = "a" /\ r.md5 = "m2"

\* C10: meta never holds two records with the same filename.
C10_FilenameUnique ==
    \A r1, r2 \in meta.rows : r1.filename = r2.filename => r1 = r2

C10_Witness ==
    /\ Cardinality(meta.rows) = 2
    /\ ret.op = "UpsertMigration" /\ ret.err = ErrNil
    /\ \A r \in meta.rows : r.md5 = "m2"

\* the leading number of a file name: the value of its leading digits
RECURSIVE LeadingNumber(_)
LeadingNumber(filename) ==
    LET n == Cardinality({ k \in 1 .. Len(filename) :
                             \A j \in 1 .. k : IsDigit(filename[j]) })
    IN  IF n = 0 THEN 0
        ELSE 10 * LeadingNumber(SubSeq(filename, 1, n - 1)) + DigitValue(filename[n])

Listed == ret.op = "GetMigrations" /\ ret.err = ErrNil

\* C11: GetMigrations returns every record of meta exactly once, and of two
\* records whose leading numbers differ the one with the smaller number
\* first.
C11_ListNumericOrder ==
    Listed =>
        /\ Len(ret.val) = Cardinality(meta.rows)
        /\ \A r \in meta.rows :
              \E k \in 1 .. Len(ret.val) :
                  ret.val[k] = [filename |-> r.filename, content |-> r.content,
                                checksum |-> r.md5]
        /\ \A i, j \in 1 .. Len(ret.val) :
              LeadingNumber(ret.val[i].filename) < LeadingNumber(ret.val[j].filename)
                  => i < j

C11_Witness ==
    /\ Listed
    /\ Len(ret.val) = 3
    /\ ret.val[1].filename = <<"x">>
    /\ ret.val[2].filename = <<"9", "_", "x">>
    /\ ret.val[3].filename = <<"1", "0", "_", "y">>

\* the order of the character codes, over the characters of the file names
CharCode(c) ==
    CHOOSE n \in 1 .. 15 :
        <<"0", "1", "2", "3", "4", "5", "6", "7", "8", "9",
          "_", "a", "b", "x", "y">>[n] = c

\* f comes before g in the lexicographic order
LexLess(f, g) ==
    \E k \in 1 .. Len(g) :
        /\ \A j \in 1 .. (k - 1) : j <= Len(f) /\ f[j] = g[j]
        /\ k > Len(f) \/ CharCode(f[k]) < CharCode(g[k])

LeadingDigits(filename) ==
    Cardinality({ k \in 1 .. Len(filename) : \A j \in 1 .. k : IsDigit(filename[j]) })

\* C12 as stated: GetMigrations returns the records sorted lexicographically
\* by filename.
C12_ListLexicographic ==
    Listed =>
        \A i, j \in 1 .. Len(ret.val) :
            LexLess(ret.val[i].filename, ret.val[j].filename) => i < j

\* C12: GetMigrations returns the records sorted by the number their file
\* names start with, which is the lexicographic order of the file names for
\* any two of them whose leading numbers differ and have the same number of
\* digits.
C12_ListLexicographicEqualWidth ==
    Listed =>
        \A i, j \in 1 .. Len(ret.val) :
            LET f == ret.val[i].filename
                g == ret.val[j].filename
            IN  /\ LeadingDigits(f) = LeadingDigits(g)
                /\ LeadingNumber(f) # LeadingNumber(g)
                /\ LexLess(f, g)
                => i < j

C12_Witness ==
    /\ Listed
    /\ ret.val = << [filename |-> <<"0", "1", "_", "b">>, content |-> "a",
                      checksum |-> "m1"],
                    [filename |-> <<"1", "0", "_", "y">>, content |-> "b",
                      checksum |-> "m2"] >>

\* C20: the order GetMigrations returns is determined by the file names
\* stored, also among file names with the same leading number or with none:
\* two listings of the same records give the same sequence.
C20_ListDetermined ==
    [][Listed /\ Listed' /\ meta' = meta => ret'.val = ret.val]_vars

\* the checkpoint rows of a file, as position and checksum
Log(table, filename) ==
    { <<r.idx, r.md5>> : r \in { q \in table.rows : q.filename = filename } }

Appended(filename) ==
    /\ ret'.op = "InsertMetaCheckpoint"
    /\ ret'.err = ErrNil
    /\ ret'.arg[1] = filename

Cleared == ret'.op = "DeleteMetaCheckpoints" /\ ret'.err = ErrNil

\* C13: GetMetaCheckpoints(F) returns the checksums of the checkpoints of F
\* and of no other file, in ascending idx, and changes nothing.
C13_ListCheckpoints ==
    [][ret'.op = "GetMetaCheckpoints" /\ ret'.err = ErrNil =>
        LET log == Log(metacheckpoints, ret'.arg[1]) IN
        /\ Unchanged
        /\ Len(ret'.val) = Cardinality(log)
        /\ \A e \in log :
              ret'.val[1 + Cardinality({ d \in log : d[1] < e[1] })] = e[2]]_vars

C13_Witness ==
    /\ ret = Returned("GetMetaCheckpoints", <<LogFile>>, ErrNil, <<"m2", "m1">>)
    /\ \E r \in metacheckpoints.rows : r.filename # LogFile /\ r.md5 = "m2"

\* C14: on a metacheckpoints table with its content column,
\* InsertMetaCheckpoint(F, c, s, i) fails with a duplicate-key error and
\* changes nothing if F already has a checkpoint at i, whatever its checksum
\* and content; otherwise it succeeds and adds exactly that row, also when
\* another file has a checkpoint at i.
C14_AppendCheckpoint ==
    [][ret'.op = "InsertMetaCheckpoint" /\ metacheckpoints.exists
            /\ metacheckpoints.content =>
        LET a == ret'.arg IN
        IF \E e \in Log(metacheckpoints, a[1]) : e[1] = a[4]
        THEN ret'.err = ErrDupEntry /\ Unchanged
        ELSE /\ ret'.err = ErrNil
             /\ metacheckpoints' =
                    [metacheckpoints EXCEPT !.rows =
                        @ \cup {[filename |-> a[1], idx |-> a[4], md5 |-> a[3],
                                 content |-> a[2]]}]
             /\ UNCHANGED <<metaversion, meta>>]_vars

C14_Witness ==
    /\ ret.op = "InsertMetaCheckpoint"
    /\ ret.err = ErrNil
    /\ \E r \in metacheckpoints.rows :
          r.filename # ret.arg[1] /\ r.idx = ret.arg[4] /\ r.md5 # ret.arg[3]

\* C15: a successful DeleteMetaCheckpoints removes the checkpoints of every
\* file and leaves meta and metaversion as they were; right after it
\* GetMetaCheckpoints returns the empty list and, the table having its
\* content column, InsertMetaCheckpoint succeeds for any file and idx.
C15_ClearCheckpoints ==
    [][/\ Cleared =>
            /\ metacheckpoints' = [metacheckpoints EXCEPT !.rows = {}]
            /\ UNCHANGED <<metaversion, meta>>
       /\ ret.op = "DeleteMetaCheckpoints" /\ ret.err = ErrNil =>
            /\ ret'.op = "GetMetaCheckpoints" => ret'.err = ErrNil /\ ret'.val = <<>>
            /\ ret'.op = "InsertMetaCheckpoint" /\ metacheckpoints.content =>
                   ret'.err = ErrNil]_vars

C15_Witness ==
    /\ ret.op = "DeleteMetaCheckpoints"
    /\ ret.err = ErrNil
    /\ metacheckpoints = [exists |-> TRUE, content |-> TRUE, rows |-> {}]
    /\ meta.rows # {}
    /\ metaversion.rows = <<1>>

\* C17: a checkpoint that was appended stays, with its checksum, through
\* every later step that is not a successful DeleteMetaCheckpoints: a new
\* process opening the store, a failing append, a failing UpgradeToV1; and
\* GetMetaCheckpoints returns one checksum for each of them.
C17_CheckpointsDurable ==
    [][~Cleared =>
        \A f \in Filenames :
            /\ Log(metacheckpoints, f) \subseteq Log(metacheckpoints', f)
            /\ ret'.op = "GetMetaCheckpoints" /\ ret'.arg[1] = f /\ ret'.err = ErrNil =>
                   /\ Len(ret'.val) = Cardinality(Log(metacheckpoints, f))
                   /\ \A e \in Log(metacheckpoints, f) :
                         \E k \in 1 .. Len(ret'.val) : ret'.val[k] = e[2]]_vars

C17_Witness ==
    /\ ret.op = "UpgradeToV1"
    /\ ret.err # ErrNil
    /\ Log(metacheckpoints, LogFile) = { <<0, "m1">>, <<1, "m2">> }

\* the positions of the checkpoints of a file are 0 .. k-1 for some k
GapFree(table, filename) ==
    LET log == Log(table, filename) IN
    { e[1] : e \in log } = 0 .. (Cardinality(log) - 1)

\* C18 as stated: after any sequence of InsertMetaCheckpoint and
\* DeleteMetaCheckpoints calls, the positions of the checkpoints of every
\* file are a gap-free prefix 0 .. k-1.
C18_GapFree == \A f \in Filenames : GapFree(metacheckpoints, f)

\* C18: the store accepts any idx; the positions of the checkpoints of a file
\* stay a gap-free prefix 0 .. k-1 through every step in which a checkpoint
\* appended for the file, if any, has idx = k, the number of checkpoints the
\* file has.
C18_GapFreeWhenAppendedInOrder ==
    [][\A f \in Filenames :
          /\ GapFree(metacheckpoints, f)
          /\ Appended(f) => ret'.arg[4] = Cardinality(Log(metacheckpoints, f))
          => GapFree(metacheckpoints', f)]_vars

C18_Witness ==
    /\ ret.op = "InsertMetaCheckpoint"
    /\ ret.err = ErrNil
    /\ ret.arg[4] = 1
    /\ \A f \in Filenames : { e[1] : e \in Log(metacheckpoints, f) } = {0, 1}

\* C19: the number of checkpoints of a file F grows by one with a successful
\* InsertMetaCheckpoint for F and becomes 0 with a successful
\* DeleteMetaCheckpoints; every other step (an append for another file, a
\* failed append, the three CreateXIfNotExists, UpsertMigration,
\* InsertMigration, UpgradeToV1) leaves the checkpoints of F as they were.
C19_CheckpointCount ==
    [][\A f \in Filenames :
          LET n == Cardinality(Log(metacheckpoints, f))
              m == Cardinality(Log(metacheckpoints', f))
          IN  IF Appended(f) THEN m = n + 1
              ELSE IF Cleared THEN m = 0
              ELSE Log(metacheckpoints', f) = Log(metacheckpoints, f)]_vars

C19_Witness ==
    /\ ret.op = "CreateMetaCheckpointsIfNotExists"
    /\ ret.err = ErrNil
    /\ Cardinality(Log(metacheckpoints, LogFile)) = 2
    /\ \E f \in Filenames : Cardinality(Log(metacheckpoints, f)) = 1

\* C16: New fails with a configuration error whenever at least one of key,
\* cert, CA and server name is given and at least one is missing; it returns
\* a store without TLS only when none of the four is given.
C16_TLSAllOrNone ==
    ret.op = "New" =>
        LET given == { k \in 1 .. 4 : ret.arg[k] # "" } IN
        /\ given # {} /\ given # 1 .. 4 =>
               ret.err \in { ErrServerNameRequired, ErrCertRequired, ErrCARequired }
        /\ ret.err = ErrNil /\ ret.val.tls = "" => given = {}

=============================================================================
